---- MODULE Spec2Model ----
(***************************************************************************)
(* A model of web_report.py: main fetches one page and run_report prints   *)
(* its title, size, meta tags, visible-text word statistics, the keywords  *)
(* missing from the content, and the hyperlinks.                           *)
(*                                                                         *)
(* A Python str is a sequence of one-character strings, so that strip,     *)
(* split, replace, lower and the regular expression act on characters.     *)
(* A dict is a sequence of [word, count] entries in insertion order.       *)
(***************************************************************************)
EXTENDS Integers, Sequences, FiniteSets

VARIABLES
    pc,         \* position in main / run_report
    gets,       \* number of HTTP GETs issued so far
    response,   \* the requests response object
    page_data,  \* the parsed document
    title,      \* run_report's local title
    size,       \* run_report's local size, as a number of 1/1024 K
    keywords,   \* the raw keywords returned by get_meta
    wordlist,   \* filter_content's word_list / run_report's wordlist
    row,        \* number of text nodes filter_content has consumed
    word_dict,  \* word_tally's dictionary
    scanned,    \* number of tokens word_tally has consumed
    fetch,      \* how requests.get ended: "pending", "raised" or "returned"
    output      \* everything printed so far

vars == <<pc, gets, response, page_data, title, size, keywords, wordlist,
          row, word_dict, scanned, fetch, output>>

----------------------------------------------------------------------------
\* Bounds of the model.

\* longest text of a text node in the filter_content specification
MaxTextLen == 4
\* longest run of characters between the comment delimiters of a text node
MaxMidLen == 2
\* longest token list given to word_tally
MaxWords == 7
\* longest token list whose tokens first occur in any order
MaxFreeWords == 3
\* longest content attribute of a keywords meta tag
MaxContentLen == 4
\* largest Content-Length / body length, in bytes
MaxBytes == 2

\* the slice [:5] of the sorted tally
TopN == 5

----------------------------------------------------------------------------
\* Python str operations used by the program.

Min(a, b) == IF a < b THEN a ELSE b

\* characters str.strip() removes
IsSpace(c) == c \in {" ", "\t", "\n"}

RECURSIVE lstrip(_)
lstrip(s) ==
    IF s # <<>> /\ IsSpace(Head(s)) THEN lstrip(Tail(s)) ELSE s

RECURSIVE rstrip(_)
rstrip(s) ==
    IF s # <<>> /\ IsSpace(s[Len(s)]) THEN rstrip(SubSeq(s, 1, Len(s) - 1)) ELSE s

\* str.strip()
strip(s) == rstrip(lstrip(s))

\* str.split(sep) for a one-character separator: never an empty list
RECURSIVE split(_, _)
split(s, sep) ==
    IF \E i \in 1..Len(s) : s[i] = sep
    THEN LET i == CHOOSE k \in 1..Len(s) :
                      s[k] = sep /\ \A j \in 1..(k - 1) : s[j] # sep
         IN  <<SubSeq(s, 1, i - 1)>> \o split(SubSeq(s, i + 1, Len(s)), sep)
    ELSE <<s>>

\* str.replace(c, '')
remove(s, c) == SelectSeq(s, LAMBDA x : x # c)

LowerChar(c) ==
    CASE c = "A" -> "a"
      [] c = "B" -> "b"
      [] OTHER -> c

\* str.lower()
lower(s) == [i \in 1..Len(s) |-> LowerChar(s[i])]

\* re.match('<!--.*-->', s): anchored at the start only, and '.' matches
\* every character but the line feed
re_match_comment(s) ==
    /\ Len(s) >= 7
    /\ SubSeq(s, 1, 4) = <<"<", "!", "-", "-">>
    /\ \E k \in 5..(Len(s) - 2) :
          /\ SubSeq(s, k, k + 2) = <<"-", "-", ">">>
          /\ \A j \in 5..(k - 1) : s[j] # "\n"

----------------------------------------------------------------------------
\* The functions of web_report.py.

ignore == {"head", "title", "style", "script", "[document]"}

\* is_visible with 'script' missing from the ignore list
is_visible_script_shown(element) ==
    IF element.parent \in (ignore \ {"script"}) THEN FALSE
    ELSE IF re_match_comment(element.text) THEN FALSE
    ELSE TRUE

\* is_visible(element): element is a text node [parent, text]
is_visible(element) ==
    IF element.parent \in ignore THEN FALSE
    ELSE IF re_match_comment(element.text) THEN FALSE
    ELSE TRUE

\* the normalisation of one word of a row
normalize(w) == lower(remove(remove(strip(w), ","), "."))

\* row_words with str.split(): runs of spaces separate, no empty words
row_words_no_empty(text) ==
    IF strip(text) # <<>>
    THEN LET words == SelectSeq(split(strip(text), " "), LAMBDA w : w # <<>>)
         IN  [i \in 1..Len(words) |-> normalize(words[i])]
    ELSE <<>>

\* the tokens one row adds to word_list in filter_content's loop
row_words(text) ==
    IF strip(text) # <<>>
    THEN LET words == split(strip(text), " ")
         IN  [i \in 1..Len(words) |-> normalize(words[i])]
    ELSE <<>>

\* one iteration of filter_content's loop over the text nodes, the lazy
\* filter(content_filter, page_text) included
filter_step(word_list, element) ==
    IF is_visible(element) THEN word_list \o row_words(element.text)
    ELSE word_list

\* filter_content(soup, is_visible) as a whole: the loop over all text nodes
RECURSIVE filter_content(_)
filter_content(texts) ==
    IF texts = <<>> THEN <<>>
    ELSE filter_step(filter_content(SubSeq(texts, 1, Len(texts) - 1)),
                     texts[Len(texts)])

\* truthiness of word_dict.get(word)
dict_get_truthy(d, word) ==
    \E i \in 1..Len(d) : d[i].word = word /\ d[i].count # 0

HasKey(d, word) == \E i \in 1..Len(d) : d[i].word = word

\* d[word] = v on an insertion-ordered dict
dict_set(d, word, v) ==
    IF HasKey(d, word)
    THEN [i \in 1..Len(d) |->
            IF d[i].word = word THEN [word |-> word, count |-> v] ELSE d[i]]
    ELSE Append(d, [word |-> word, count |-> v])

dict_count(d, word) ==
    LET i == CHOOSE k \in 1..Len(d) : d[k].word = word IN d[i].count

\* tally_step with 'word_dict[word] = +1' for 'word_dict[word] += 1'
tally_step_assign(d, word) == dict_set(d, word, 1)

\* one iteration of word_tally's loop
tally_step(d, word) ==
    IF ~dict_get_truthy(d, word) THEN dict_set(d, word, 1)
    ELSE dict_set(d, word, dict_count(d, word) + 1)

\* insert_desc that puts an entry before the entries of equal count, as an
\* ascending sort followed by a reversal does
RECURSIVE insert_desc_before_equal(_, _)
insert_desc_before_equal(sorted, e) ==
    IF sorted = <<>> THEN <<e>>
    ELSE IF Head(sorted).count > e.count
         THEN <<Head(sorted)>> \o insert_desc_before_equal(Tail(sorted), e)
         ELSE <<e>> \o sorted

\* list.sort is stable; with reverse=True equal keys keep their order too
RECURSIVE insert_desc(_, _)
insert_desc(sorted, e) ==
    IF sorted = <<>> THEN <<e>>
    ELSE IF Head(sorted).count >= e.count
         THEN <<Head(sorted)>> \o insert_desc(Tail(sorted), e)
         ELSE <<e>> \o sorted

RECURSIVE sorted_by_count_desc(_)
sorted_by_count_desc(l) ==
    IF l = <<>> THEN <<>>
    ELSE insert_desc(sorted_by_count_desc(SubSeq(l, 1, Len(l) - 1)), l[Len(l)])

\* sorted(word_count_list, key=count, reverse=True)[:5]
five_most_common(d) ==
    LET s == sorted_by_count_desc(d) IN SubSeq(s, 1, Min(TopN, Len(s)))

\* get_meta's loop over the meta tags: the keywords
RECURSIVE meta_keywords(_)
meta_keywords(metas) ==
    IF metas = <<>> THEN <<>>
    ELSE LET m == Head(metas)
             own == IF m.has_name /\ m.name = "keywords"
                    THEN split(IF m.has_content THEN m.content ELSE <<>>, ",")
                    ELSE <<>>
         IN  own \o meta_keywords(Tail(metas))

\* get_meta(soup)
get_meta(soup) == [all_tags |-> soup.metas, keywords |-> meta_keywords(soup.metas)]

\* keyword_missing without the lower()
keyword_missing_case_sensitive(keyword, words) ==
    ~\E i \in 1..Len(words) : words[i] = strip(keyword)

\* the test of the keyword loop: keyword.lower().strip() not in wordlist
keyword_missing(keyword, words) ==
    ~\E i \in 1..Len(words) : words[i] = strip(lower(keyword))

\* the keywords run_report prints as not in content, as displayed
keywords_not_in_content(kws, words) ==
    LET missing == SelectSeq(kws, LAMBDA k : keyword_missing(k, words))
    IN  [i \in 1..Len(missing) |-> strip(missing[i])]

----------------------------------------------------------------------------
\* The values the program works on.

\* all sequences over S of length n, and of length at most n
RECURSIVE SeqsOfLen(_, _)
SeqsOfLen(S, n) ==
    IF n = 0 THEN {<<>>}
    ELSE {Append(s, c) : s \in SeqsOfLen(S, n - 1), c \in S}

SeqsUpTo(S, n) == UNION {SeqsOfLen(S, k) : k \in 0..n}

\* page_data.title: no <title> element, a title without a single string,
\* a title with the string "t"
TitleAbsent == [present |-> FALSE, has_string |-> FALSE, string |-> <<>>]
TitleNoString == [present |-> TRUE, has_string |-> FALSE, string |-> <<>>]
TitleText == [present |-> TRUE, has_string |-> TRUE, string |-> <<"t">>]

NoTitle == [has_string |-> FALSE, string |-> <<>>]

EmptyDoc == [title |-> TitleText, metas |-> <<>>, texts |-> <<>>, links |-> <<>>]

NoResponse ==
    [status_code |-> 0, has_content_length |-> FALSE, content_length |-> 0,
     text_len |-> 0, doc |-> EmptyDoc]

MetaTag(name, content) ==
    [has_name |-> TRUE, name |-> name, has_content |-> TRUE, content |-> content]

\* a meta tag with neither a name nor a content attribute
MetaCharset ==
    [has_name |-> FALSE, name |-> "", has_content |-> FALSE, content |-> <<>>]

\* a keywords meta tag without a content attribute
MetaKeywordsNoContent ==
    [has_name |-> TRUE, name |-> "keywords", has_content |-> FALSE, content |-> <<>>]

TextNode(parent, text) == [parent |-> parent, text |-> text]

Line(kind, data) == [kind |-> kind, data |-> data]

Kinds(out) == [i \in 1..Len(out) |-> out[i].kind]

Printed(kind) == \E i \in 1..Len(output) : output[i].kind = kind

\* the report sections, in the order run_report prints them
ReportSections ==
    <<"title", "size", "meta", "word_summary", "counts", "top_five",
      "keywords", "links">>

\* The pages and responses of the run of main.

Titles == {TitleAbsent, TitleNoString, TitleText}

MetaLists ==
    { <<>>,
      <<MetaCharset, MetaTag("keywords", <<"a", ",", " ", "B">>)>>,
      <<MetaKeywordsNoContent, MetaTag("description", <<"a">>)>> }

TextLists ==
    { <<>>,
      <<TextNode("title", <<"t">>), TextNode("p", <<"A", " ", "a", ".">>)>>,
      <<TextNode("script", <<"a">>), TextNode("p", <<"b", " ", " ", "a">>),
        TextNode("p", <<"\n">>)>> }

LinkLists ==
    { <<>>,
      <<[has_string |-> TRUE, string |-> <<"a">>, has_href |-> TRUE, href |-> <<"b">>],
        [has_string |-> FALSE, string |-> <<>>, has_href |-> FALSE, href |-> <<>>]>> }

Docs == [title : Titles, metas : MetaLists, texts : TextLists, links : LinkLists]

StatusCodes == {200, 404}

\* the responses requests.get can return; a response without the header
\* has no declared length
Responses ==
    { r \in [status_code : StatusCodes, has_content_length : BOOLEAN,
             content_length : 0..MaxBytes, text_len : 0..MaxBytes, doc : Docs] :
        ~r.has_content_length => r.content_length = 0 }

----------------------------------------------------------------------------
\* main

\* requests.get raises: the except clause prints the error and returns
GetRaises ==
    /\ pc = "main"
    /\ gets' = gets + 1
    /\ fetch' = "raised"
    /\ output' = output \o <<Line("banner", <<>>), Line("error", "exception")>>
    /\ pc' = "done"
    /\ UNCHANGED <<response, page_data, title, size, keywords, wordlist, row,
                   word_dict, scanned>>

\* requests.get returns the response r
Returns(r) ==
    /\ gets' = gets + 1
    /\ fetch' = "returned"
    /\ response' = r
    /\ output' = Append(output, Line("banner", <<>>))
    /\ pc' = "check_status"
    /\ UNCHANGED <<page_data, title, size, keywords, wordlist, row, word_dict,
                   scanned>>

GetReturns == pc = "main" /\ \E r \in Responses : Returns(r)

\* CheckStatus without the return after the error message
CheckStatusNoReturn ==
    /\ pc = "check_status"
    /\ output' = IF response.status_code # 200
                 THEN Append(output, Line("error", response.status_code))
                 ELSE output
    /\ pc' = "run_report"
    /\ UNCHANGED <<gets, response, page_data, title, size, keywords, wordlist,
                   row, word_dict, scanned, fetch>>

\* if response.status_code != 200: print the error and return
CheckStatus ==
    /\ pc = "check_status"
    /\ IF response.status_code # 200
       THEN /\ output' = Append(output, Line("error", response.status_code))
            /\ pc' = "done"
       ELSE /\ output' = output
            /\ pc' = "run_report"
    /\ UNCHANGED <<gets, response, page_data, title, size, keywords, wordlist,
                   row, word_dict, scanned, fetch>>

----------------------------------------------------------------------------
\* run_report

\* the parse, title = page_data.title.string (an AttributeError when
\* page_data.title is None, which nothing catches) and the size
ParseTitleSize ==
    /\ pc = "run_report"
    /\ page_data' = response.doc
    /\ IF ~response.doc.title.present
       THEN /\ pc' = "raised"
            /\ UNCHANGED <<title, size>>
       ELSE /\ title' = [has_string |-> response.doc.title.has_string,
                         string |-> response.doc.title.string]
            /\ size' = IF response.has_content_length
                       THEN response.content_length ELSE 0
            /\ pc' = "print_title"
    /\ UNCHANGED <<gets, response, keywords, wordlist, row, word_dict, scanned,
                   fetch, output>>

PrintTitle ==
    /\ pc = "print_title"
    /\ output' = Append(output, Line("title", title))
    /\ pc' = "print_size"
    /\ UNCHANGED <<gets, response, page_data, title, size, keywords, wordlist,
                   row, word_dict, scanned, fetch>>

\* if size: the size in K, else 'not found!'
PrintSize ==
    /\ pc = "print_size"
    /\ output' = Append(output,
                        IF size # 0
                        THEN Line("size", [found |-> TRUE, bytes |-> size])
                        ELSE Line("size", [found |-> FALSE, bytes |-> 0]))
    /\ pc' = "meta"
    /\ UNCHANGED <<gets, response, page_data, title, size, keywords, wordlist,
                   row, word_dict, scanned, fetch>>

\* meta, keywords = get_meta(page_data), and the listing of the tags
Meta ==
    /\ pc = "meta"
    /\ keywords' = get_meta(page_data).keywords
    /\ output' = Append(output, Line("meta", get_meta(page_data).all_tags))
    /\ pc' = "filter"
    /\ UNCHANGED <<gets, response, page_data, title, size, wordlist, row,
                   word_dict, scanned, fetch>>

\* filter_content: page_text, the lazy filter and word_list = []
FilterStart ==
    /\ pc = "filter"
    /\ row' = 0
    /\ wordlist' = <<>>
    /\ pc' = "filter_loop"
    /\ UNCHANGED <<gets, response, page_data, title, size, keywords, word_dict,
                   scanned, fetch, output>>

\* filter_content: the next text node
FilterIter ==
    /\ pc = "filter_loop"
    /\ row < Len(page_data.texts)
    /\ row' = row + 1
    /\ wordlist' = filter_step(wordlist, page_data.texts[row + 1])
    /\ UNCHANGED <<pc, gets, response, page_data, title, size, keywords,
                   word_dict, scanned, fetch, output>>

\* filter_content returns; run_report prints the word summary heading
FilterReturn ==
    /\ pc = "filter_loop"
    /\ row = Len(page_data.texts)
    /\ output' = Append(output, Line("word_summary", <<>>))
    /\ pc' = "tally"
    /\ UNCHANGED <<gets, response, page_data, title, size, keywords, wordlist,
                   row, word_dict, scanned, fetch>>

\* word_tally: word_dict = {}
TallyStart ==
    /\ pc = "tally"
    /\ word_dict' = <<>>
    /\ scanned' = 0
    /\ pc' = "tally_loop"
    /\ UNCHANGED <<gets, response, page_data, title, size, keywords, wordlist,
                   row, fetch, output>>

\* word_tally: the next word
TallyIter ==
    /\ pc = "tally_loop"
    /\ scanned < Len(wordlist)
    /\ scanned' = scanned + 1
    /\ word_dict' = tally_step(word_dict, wordlist[scanned + 1])
    /\ UNCHANGED <<pc, gets, response, page_data, title, size, keywords,
                   wordlist, row, fetch, output>>

\* word_tally returns; run_report prints len(wordlist) and len(word_dict)
TallyReturn ==
    /\ pc = "tally_loop"
    /\ scanned = Len(wordlist)
    /\ output' = Append(output, Line("counts", [total |-> Len(wordlist),
                                                unique |-> Len(word_dict)]))
    /\ pc' = "top_five"
    /\ UNCHANGED <<gets, response, page_data, title, size, keywords, wordlist,
                   row, word_dict, scanned, fetch>>

\* the five most common words
TopFive ==
    /\ pc = "top_five"
    /\ output' = Append(output, Line("top_five", five_most_common(word_dict)))
    /\ pc' = "keywords"
    /\ UNCHANGED <<gets, response, page_data, title, size, keywords, wordlist,
                   row, word_dict, scanned, fetch>>

\* the META keywords not in content
Keywords ==
    /\ pc = "keywords"
    /\ output' = Append(output,
                        Line("keywords", keywords_not_in_content(keywords, wordlist)))
    /\ pc' = "links"
    /\ UNCHANGED <<gets, response, page_data, title, size, keywords, wordlist,
                   row, word_dict, scanned, fetch>>

\* the hyperlinks, then run_report and main return
Links ==
    /\ pc = "links"
    /\ output' = Append(output, Line("links", page_data.links))
    /\ pc' = "done"
    /\ UNCHANGED <<gets, response, page_data, title, size, keywords, wordlist,
                   row, word_dict, scanned, fetch>>

----------------------------------------------------------------------------
\* The run of main on one page.

Init ==
    /\ pc = "main"
    /\ gets = 0
    /\ fetch = "pending"
    /\ response = NoResponse
    /\ page_data = EmptyDoc
    /\ title = NoTitle
    /\ size = 0
    /\ keywords = <<>>
    /\ wordlist = <<>>
    /\ row = 0
    /\ word_dict = <<>>
    /\ scanned = 0
    /\ output = <<>>

Next ==
    \/ GetRaises
    \/ GetReturns
    \/ CheckStatus
    \/ ParseTitleSize
    \/ PrintTitle
    \/ PrintSize
    \/ Meta
    \/ FilterStart
    \/ FilterIter
    \/ FilterReturn
    \/ TallyStart
    \/ TallyIter
    \/ TallyReturn
    \/ TopFive
    \/ Keywords
    \/ Links

Spec == Init /\ [][Next]_vars

----------------------------------------------------------------------------
\* Claims about the run of main (specification Spec).

CountKind(kind) == Cardinality({i \in 1..Len(output) : output[i].kind = kind})

AnySectionPrinted == \E i \in 1..Len(ReportSections) : Printed(ReportSections[i])

AllSectionsPrinted == \A i \in 1..Len(ReportSections) : Printed(ReportSections[i])

\* run_report has been entered and main has not returned
InRunReport == pc \notin {"main", "check_status", "done"}

FetchFailed ==
    \/ fetch = "raised"
    \/ fetch = "returned" /\ response.status_code # 200

FetchSucceeded == fetch = "returned" /\ response.status_code = 200

\* C6: run_report starts only after the single GET has returned without
\* raising and with status 200; when the GET raises or the status is not
\* 200, exactly one error message is printed, no report section is printed,
\* no second GET is issued and the run ends.
C6_AnalysisOnlyAfterSuccessfulGet ==
    /\ gets <= 1
    /\ (InRunReport \/ AnySectionPrinted) => (gets = 1 /\ FetchSucceeded)
    /\ fetch = "raised" => pc = "done"
    /\ FetchFailed => pc \in {"check_status", "done"}
    /\ (FetchFailed /\ pc = "done") =>
          /\ CountKind("error") = 1
          /\ ~AnySectionPrinted
          /\ gets = 1
    /\ FetchSucceeded => CountKind("error") = 0

\* a run that ended on a 404 response
C6_Witness ==
    /\ pc = "done"
    /\ fetch = "returned"
    /\ response.status_code = 404
    /\ Printed("error")

\* C7: a fetched document without a <title> element, or with a title that
\* has no single string, is not an error: run_report raises nothing and
\* prints every later section.
C7_MissingTitleIsNotAnError ==
    (FetchSucceeded /\ ~(response.doc.title.present /\ response.doc.title.has_string)) =>
        /\ pc # "raised"
        /\ pc = "done" => AllSectionsPrinted

\* C8: without a Content-Length header the size is printed as not found,
\* whatever the length of the body, and the rest of the report follows.
C8_MissingContentLengthIsNotAnError ==
    (FetchSucceeded /\ ~response.has_content_length) =>
        /\ pc # "raised"
        /\ \A i \in 1..Len(output) :
              output[i].kind = "size" => ~output[i].data.found
        /\ pc = "done" => AllSectionsPrinted

\* What the code does guarantee for C7 and C8: when the document has a
\* <title> element the run ends with every section printed, a title without
\* a string and a missing Content-Length included, and the size line says
\* not found exactly when the header is missing or declares 0.
SectionsWhenTitlePresent ==
    (FetchSucceeded /\ response.doc.title.present) =>
        /\ pc # "raised"
        /\ pc = "done" => Kinds(output) = <<"banner">> \o ReportSections
        /\ \A i \in 1..Len(output) :
              output[i].kind = "size" =>
                  (output[i].data.found <=>
                      (response.has_content_length /\ response.content_length # 0))

----------------------------------------------------------------------------
\* filter_content(page_data, is_visible) on bounded documents.

FilterChars == {"a", "B", " ", "\t", ",", "."}

CommentOpen == <<"<", "!", "-", "-">>
CommentClose == <<"-", "-", ">">>

\* texts around the comment delimiters
CommentTexts ==
    { pre \o mid \o post :
        pre \in {CommentOpen, <<"a">> \o CommentOpen, <<"<", "!", "-">>},
        mid \in SeqsUpTo({"a", "\n", "-"}, MaxMidLen),
        post \in {CommentClose, CommentClose \o <<"a">>, <<"-", ">">>} }

FilterTexts == SeqsUpTo(FilterChars, MaxTextLen) \cup CommentTexts

Parents == ignore \cup {"p"}

\* one text node, alone or after a visible one
FilterTextList(parent, text, after) ==
    IF after THEN <<TextNode("p", <<"a">>), TextNode(parent, text)>>
    ELSE <<TextNode(parent, text)>>

\* the response of a successful fetch of document d
ResponseOf(d) ==
    [status_code |-> 200, has_content_length |-> FALSE, content_length |-> 0,
     text_len |-> 0, doc |-> d]

\* what run_report has printed when it reaches get_meta's result
OutputBeforeFilter(d) ==
    <<Line("banner", <<>>), Line("title", [has_string |-> TRUE, string |-> <<"t">>]),
      Line("size", [found |-> FALSE, bytes |-> 0]), Line("meta", d.metas)>>

\* run_report about to call filter_content on document d
AtFilter(d) ==
    /\ pc = "filter"
    /\ gets = 1
    /\ fetch = "returned"
    /\ response = ResponseOf(d)
    /\ page_data = d
    /\ title = [has_string |-> TRUE, string |-> <<"t">>]
    /\ size = 0
    /\ keywords = meta_keywords(d.metas)
    /\ wordlist = <<>>
    /\ row = 0
    /\ word_dict = <<>>
    /\ scanned = 0
    /\ output = OutputBeforeFilter(d)

InitFilter ==
    \E parent \in Parents, text \in FilterTexts, after \in BOOLEAN :
        AtFilter([EmptyDoc EXCEPT !.texts = FilterTextList(parent, text, after)])

NextFilter ==
    \/ FilterStart
    \/ FilterIter
    \/ FilterReturn

SpecFilter == InitFilter /\ [][NextFilter]_vars

\* a step of filter_content's loop, and the text node it consumes
ConsumesRow == pc = "filter_loop" /\ row' = row + 1

Consumed == page_data.texts[row + 1]

\* C4: a text node directly inside script, style, head, title or the
\* document root is rejected by is_visible and adds no token, whatever its
\* text is.
C4_IgnoredParentsContributeNothing ==
    [][(ConsumesRow
          /\ Consumed.parent \in {"script", "style", "head", "title", "[document]"})
       => (~is_visible(Consumed) /\ wordlist' = wordlist)]_vars

\* filter_content has returned from a document with a non-blank script text
C4_Witness ==
    /\ pc = "tally"
    /\ page_data.texts = <<TextNode("p", <<"a">>), TextNode("script", <<"a", " ", "B">>)>>
    /\ wordlist = <<(<<"a">>)>>

StartsWith(s, pre) == Len(s) >= Len(pre) /\ SubSeq(s, 1, Len(pre)) = pre

EndsWith(s, post) ==
    Len(s) >= Len(post) /\ SubSeq(s, Len(s) - Len(post) + 1, Len(s)) = post

LooksLikeComment(s) == StartsWith(s, CommentOpen) /\ EndsWith(s, CommentClose)

\* C5: a text node whose text starts with '<!--' and ends with '-->',
\* whatever lies in between, is rejected and adds no token; a text node
\* whose text does not both start and end so is not rejected by the comment
\* rule.
C5_CommentPatternDecidesRejection ==
    [][ConsumesRow =>
          /\ LooksLikeComment(Consumed.text)
                => (~is_visible(Consumed) /\ wordlist' = wordlist)
          /\ (~LooksLikeComment(Consumed.text) /\ Consumed.parent = "p")
                => is_visible(Consumed)]_vars

\* the whitespace-trimmed text, by the positions of its first and last
\* character that is not whitespace
Trimmed(t) ==
    LET solid == {i \in 1..Len(t) : ~IsSpace(t[i])}
    IN  IF solid = {} THEN <<>>
        ELSE SubSeq(t, CHOOSE i \in solid : \A j \in solid : i <= j,
                       CHOOSE i \in solid : \A j \in solid : j <= i)

SpacePositions(t) == {i \in 1..Len(t) : t[i] = " "}

\* where segment k of t ends and begins: the k-th space, 0 and Len(t) + 1
Boundary(t, k) ==
    IF k = 0 THEN 0
    ELSE IF k > Cardinality(SpacePositions(t)) THEN Len(t) + 1
    ELSE CHOOSE p \in SpacePositions(t) :
            Cardinality({q \in SpacePositions(t) : q < p}) = k - 1

Segment(t, k) == SubSeq(t, Boundary(t, k - 1) + 1, Boundary(t, k) - 1)

\* C9: a visible text node with non-blank text adds exactly one token per
\* segment of its trimmed text between single spaces, (number of spaces) + 1
\* tokens, in order; an empty segment, or one made only of ',' and '.',
\* adds an empty token.
C9_OneTokenPerSegment ==
    [][(ConsumesRow /\ is_visible(Consumed) /\ Trimmed(Consumed.text) # <<>>)
          => LET t == Trimmed(Consumed.text)
                 n == Cardinality(SpacePositions(t)) + 1
             IN  /\ Len(wordlist') = Len(wordlist) + n
                 /\ SubSeq(wordlist', 1, Len(wordlist)) = wordlist
                 /\ \A k \in 1..n :
                       /\ wordlist'[Len(wordlist) + k] = normalize(Segment(t, k))
                       /\ (\A i \in 1..Len(Segment(t, k)) :
                              Segment(t, k)[i] \in {",", "."})
                          => wordlist'[Len(wordlist) + k] = <<>>]_vars

\* filter_content has returned from "a" and "B  ,": the tokens a, b, '', ''
C9_Witness ==
    /\ pc = "tally"
    /\ page_data.texts = <<TextNode("p", <<"a">>), TextNode("p", <<"B", " ", " ", ",">>)>>
    /\ wordlist = <<(<<"a">>), (<<"b">>), <<>>, <<>>>>

IsWordToken(w) ==
    /\ \A i \in 1..Len(w) : w[i] \notin {",", ".", "A", "B"}
    /\ w # <<>> => (~IsSpace(w[1]) /\ ~IsSpace(w[Len(w)]))

\* C10: every token filter_content emits has no ',' and no '.', no
\* uppercase letter, and no leading or trailing whitespace.
C10_TokensAreNormalized == \A i \in 1..Len(wordlist) : IsWordToken(wordlist[i])

----------------------------------------------------------------------------
\* word_tally(wordlist) and the five most common words on bounded token lists.

\* the tokens, in the order in which they first occur in the longer lists
TokenOrder == <<(<<"a">>), <<>>, (<<"b">>), (<<"c">>), (<<"d">>), (<<"e">>)>>

Tokens == {TokenOrder[i] : i \in 1..Len(TokenOrder)}

MaxOf(s) == IF s = <<>> THEN 0 ELSE CHOOSE m \in 1..Len(TokenOrder) :
                /\ \E i \in 1..Len(s) : s[i] = m
                /\ \A i \in 1..Len(s) : s[i] <= m

\* the index lists of length n in which k occurs only after k - 1
RECURSIVE FirstOccurrenceOrdered(_)
FirstOccurrenceOrdered(n) ==
    IF n = 0 THEN {<<>>}
    ELSE UNION { {Append(s, k) : k \in 1..Min(Len(TokenOrder), MaxOf(s) + 1)} :
                    s \in FirstOccurrenceOrdered(n - 1) }

\* word_tally and the sort compare tokens only for equality: the long lists
\* are drawn up to a renaming of the tokens, the short ones in full
WordLists ==
    { [i \in 1..Len(s) |-> TokenOrder[s[i]]] :
        s \in UNION {FirstOccurrenceOrdered(n) : n \in 0..MaxWords} }
        \cup SeqsUpTo(Tokens, MaxFreeWords)

\* a document whose visible text is exactly the tokens of words
DocOfWords(words) ==
    [EmptyDoc EXCEPT !.texts =
        [i \in 1..Len(words) |->
            TextNode("p", IF words[i] = <<>> THEN <<",">> ELSE words[i])]]

\* run_report about to call word_tally on the tokens words
AtTally(words) ==
    /\ pc = "tally"
    /\ gets = 1
    /\ fetch = "returned"
    /\ response = ResponseOf(DocOfWords(words))
    /\ page_data = DocOfWords(words)
    /\ title = [has_string |-> TRUE, string |-> <<"t">>]
    /\ size = 0
    /\ keywords = <<>>
    /\ wordlist = words
    /\ row = Len(words)
    /\ word_dict = <<>>
    /\ scanned = 0
    /\ output = Append(OutputBeforeFilter(EmptyDoc), Line("word_summary", <<>>))

InitTally == \E words \in WordLists : AtTally(words)

NextTally ==
    \/ TallyStart
    \/ TallyIter
    \/ TallyReturn
    \/ TopFive

SpecTally == InitTally /\ [][NextTally]_vars

\* occurrences of w among the first n tokens
Occurrences(w, n) == Cardinality({i \in 1..n : wordlist[i] = w})

\* the distinct tokens among the first n
Distinct(n) == {wordlist[i] : i \in 1..n}

FirstIndex(w) == CHOOSE i \in 1..Len(wordlist) :
                    wordlist[i] = w /\ \A j \in 1..(i - 1) : wordlist[j] # w

RECURSIVE SumCounts(_)
SumCounts(d) == IF d = <<>> THEN 0 ELSE Head(d).count + SumCounts(Tail(d))

InTally == pc \in {"tally_loop", "top_five", "keywords"}

\* the tally after each step of the pass
TallyIsExact ==
    InTally =>
        /\ SumCounts(word_dict) = scanned
        /\ \A i \in 1..Len(word_dict) :
              /\ word_dict[i].count >= 1
              /\ word_dict[i].count = Occurrences(word_dict[i].word, scanned)
              /\ \A j \in 1..Len(word_dict) :
                    word_dict[i].word = word_dict[j].word => i = j
        /\ \A w \in Distinct(scanned) : HasKey(word_dict, w)
        /\ Len(word_dict) = Cardinality(Distinct(scanned))

\* the counts reported once word_tally has returned
ReportedCountsAgree ==
    \A i \in 1..Len(output) :
        output[i].kind = "counts" =>
            /\ scanned = Len(wordlist)
            /\ output[i].data.total = Len(wordlist)
            /\ output[i].data.total = SumCounts(word_dict)
            /\ output[i].data.unique = Len(word_dict)
            /\ output[i].data.unique = Cardinality(Distinct(Len(wordlist)))

\* a step of the pass keeps every key and lowers no count
CountsNeverDecrease ==
    (pc = "tally_loop" /\ pc' = "tally_loop") =>
        \A i \in 1..Len(word_dict) :
            /\ HasKey(word_dict', word_dict[i].word)
            /\ dict_count(word_dict', word_dict[i].word) >= word_dict[i].count

\* C1: word_tally maps each distinct token, the empty one included, to its
\* number of occurrences: after each step the counts sum to the number of
\* tokens scanned, no count decreases or is below 1, and at the end the sum
\* is the reported total and the number of keys the reported unique count.
C1_TallyCountsOccurrences ==
    [](TallyIsExact /\ ReportedCountsAgree) /\ [][CountsNeverDecrease]_vars

\* word_tally has returned from the tokens '', a, ''
C1_Witness ==
    /\ pc = "top_five"
    /\ wordlist = <<<<>>, (<<"a">>), <<>>>>
    /\ word_dict = <<[word |-> <<>>, count |-> 2], [word |-> <<"a">>, count |-> 1]>>
    /\ Printed("counts")

\* C3: the printed five most common words are min(5, distinct tokens)
\* entries of non-increasing count, each count at least that of any
\* unlisted token, tokens of equal count in the order of their first
\* occurrence: the first five of a stable sort of the tally by descending
\* count.
C3_FiveMostCommon ==
    \A n \in 1..Len(output) :
        output[n].kind = "top_five" =>
            LET top == output[n].data
                all == Distinct(Len(wordlist))
                listed == {top[i].word : i \in 1..Len(top)}
                Before(w, c, v, k) ==
                    c > k \/ (c = k /\ FirstIndex(w) < FirstIndex(v))
            IN  /\ Len(top) = Min(5, Cardinality(all))
                /\ Cardinality(listed) = Len(top)
                /\ listed \subseteq all
                /\ \A i \in 1..Len(top) :
                      top[i].count = Occurrences(top[i].word, Len(wordlist))
                /\ \A i, j \in 1..Len(top) :
                      i < j => /\ top[i].count >= top[j].count
                               /\ Before(top[i].word, top[i].count,
                                         top[j].word, top[j].count)
                /\ \A i \in 1..Len(top) : \A u \in all \ listed :
                      /\ top[i].count >= Occurrences(u, Len(wordlist))
                      /\ Before(top[i].word, top[i].count,
                                u, Occurrences(u, Len(wordlist)))

\* the list printed for a, '', b, c, d, e, e: six distinct tokens, e first
C3_Witness ==
    /\ pc = "keywords"
    /\ wordlist = <<(<<"a">>), <<>>, (<<"b">>), (<<"c">>), (<<"d">>), (<<"e">>), (<<"e">>)>>
    /\ output[Len(output)] =
          Line("top_five",
               <<[word |-> <<"e">>, count |-> 2], [word |-> <<"a">>, count |-> 1],
                 [word |-> <<>>, count |-> 1], [word |-> <<"b">>, count |-> 1],
                 [word |-> <<"c">>, count |-> 1]>>)

----------------------------------------------------------------------------
\* get_meta and the keywords not in content on bounded meta tags.

ContentChars == {"a", "B", " ", ","}

Contents == SeqsUpTo(ContentChars, MaxContentLen)

\* a keywords tag alone, followed by other tags and a second keywords tag,
\* and the same content under another name
KeywordMetaLists ==
    {<<MetaTag("keywords", c)>> : c \in Contents}
        \cup {<<MetaTag("keywords", c), MetaCharset, MetaKeywordsNoContent,
                MetaTag("keywords", <<"a">>)>> : c \in Contents}
        \cup {<<MetaTag("description", c)>> : c \in Contents}

\* visible text with the tokens: none; a; a, b; '', a
KeywordTextLists ==
    { <<>>,
      <<TextNode("p", <<"a">>)>>,
      <<TextNode("script", <<"a">>), TextNode("p", <<"A", " ", "b", ".">>)>>,
      <<TextNode("p", <<",", " ", "a">>)>> }

\* run_report about to call get_meta on document d
AtMeta(d) ==
    /\ pc = "meta"
    /\ gets = 1
    /\ fetch = "returned"
    /\ response = ResponseOf(d)
    /\ page_data = d
    /\ title = [has_string |-> TRUE, string |-> <<"t">>]
    /\ size = 0
    /\ keywords = <<>>
    /\ wordlist = <<>>
    /\ row = 0
    /\ word_dict = <<>>
    /\ scanned = 0
    /\ output = SubSeq(OutputBeforeFilter(d), 1, 3)

InitKeywords ==
    \E ml \in KeywordMetaLists, tl \in KeywordTextLists :
        AtMeta([EmptyDoc EXCEPT !.metas = ml, !.texts = tl])

NextKeywords ==
    \/ Meta
    \/ FilterStart
    \/ FilterIter
    \/ FilterReturn
    \/ TallyStart
    \/ TallyIter
    \/ TallyReturn
    \/ TopFive
    \/ Keywords

SpecKeywords == InitKeywords /\ [][NextKeywords]_vars

\* the lowercased-and-trimmed form of a raw keyword
LowerTrimmed(k) == Trimmed([i \in 1..Len(k) |-> IF k[i] = "B" THEN "b" ELSE k[i]])

InContent(k) == \E i \in 1..Len(wordlist) : wordlist[i] = LowerTrimmed(k)

\* the raw keywords whose form is no token, in keyword order, trimmed
RECURSIVE NotInContent(_)
NotInContent(kws) ==
    IF kws = <<>> THEN <<>>
    ELSE IF InContent(Head(kws)) THEN NotInContent(Tail(kws))
    ELSE <<Trimmed(Head(kws))>> \o NotInContent(Tail(kws))

\* C2: the printed keywords not in content are exactly the raw keywords, in
\* keyword order with duplicates kept, whose lowercased-and-trimmed form is
\* no element of the token sequence, each shown trimmed.
C2_KeywordsNotInContent ==
    \A n \in 1..Len(output) :
        output[n].kind = "keywords" =>
            /\ output[n].data = NotInContent(keywords)
            /\ \A i \in 1..Len(keywords) :
                  InContent(keywords[i]) <=>
                      \A j \in 1..Len(output[n].data) :
                          output[n].data[j] # Trimmed(keywords[i])

\* content " B,a", a second keywords tag "a" and the tokens a, b: only the
\* keyword of an empty content attribute is listed
C2_Witness ==
    /\ pc = "links"
    /\ keywords = <<(<<" ", "B">>), (<<"a">>), <<>>, (<<"a">>)>>
    /\ wordlist = <<(<<"a">>), (<<"b">>)>>
    /\ output[Len(output)] = Line("keywords", <<(<<>>)>>)

\* the token list at the tally is what filter_content returns for the page
WordlistIsFilteredContent ==
    pc \in {"tally", "tally_loop", "top_five", "keywords", "links", "done"}
        => (fetch = "returned" => wordlist = filter_content(page_data.texts))

====
